---------------------------- MODULE Spec2Model ----------------------------
(***************************************************************************)
(* Cannon game (CannonGame): the session state, the pointer / click /      *)
(* resize listeners and the per-frame update(), as a state machine.        *)
(*                                                                         *)
(* Numbers.  JavaScript doubles are modelled in fixed point:               *)
(*   - lengths, positions and velocities in whole pixels (trigonometric    *)
(*     products are rounded to the nearest pixel);                        *)
(*   - angles in whole degrees, PI = 180, atan2 with range (-180, 180];    *)
(*   - life and decay in thousandths (life 1.0 = 1000);                    *)
(*   - enemySpawnRate in half frames (60 frames = 120), its step 0.5       *)
(*     being exact in binary floating point.                              *)
(* Math.random() is a nondeterministic draw from a small set.              *)
(*                                                                         *)
(* A rocket's speed is recomputed from its rounded velocity, so it is kept  *)
(* to the pixel only.                                                      *)
(*                                                                         *)
(* Left out: what only render() reads (trails, enemy rotation and colour, *)
(* particle position, velocity, radius and colour) and the audio context. *)
(*                                                                         *)
(* The record game also carries counters and logs the program does not     *)
(* have (instrumentation): they are written, never read, by the model of   *)
(* the program, and the properties are stated over them.                   *)
(***************************************************************************)
EXTENDS Integers, Sequences, FiniteSets, TLC

VARIABLES
    game,       \* the CannonGame object, the stats display and the instrumentation
    run,        \* the events of this run so far, for the bounds
    water       \* the WaterSimulation object of script.js, its page and its GPU calls

vars == <<game, run, water>>

---------------------------------------------------------------------------
(* Bounds of the model *)

MaxTicks == 4          \* update() calls after the start state
MaxInputs == 1         \* mousemove and resize events after the start state
\* the scripted start states, in frames without input:
WarmAge == 59          \* just before the first spawn
LateAge == 192         \* three enemies on the canvas, the first about to fall off
RampAge == 3276        \* the spawn interval a step above its floor, a spawn ahead
FloorAge == 3297       \* the spawn interval at its floor, a spawn ahead
RocketLead == 22       \* a rocket, RocketLead frames, a bullet, BulletLead frames
BulletLead == 5
BulletAge == 197       \* a bullet about to fade
RocketAge == 331       \* a rocket about to fade, fired before that bullet
BarrageAge == 330      \* frames of both buttons pressed: the stores at their fullest
MaxWaterFrames == 3    \* animation frames of the water demo in a run
MaxWaterEvents == 2    \* pointer and resize events of the water demo in a run

---------------------------------------------------------------------------
(* Program constants *)

BarrelLength == 50
BulletSpeed == 15
RocketSpeed == 8
BulletRadius == 4
RocketRadius == 6
BulletCooldownFrames == 8
RocketCooldownFrames == 30
FullLife == 1000                \* life: 1.0
BulletFade == 5                 \* 0.005
RocketFade == 3                 \* 0.003
ThrustDecay == 50               \* 0.05
SpawnRate0 == 120               \* enemySpawnRate = 60, in half frames
SpawnRateFloor == 40            \* 20
SpawnRateStep == 1              \* 0.5
EnemyStartY == -50
EnemyMargin == 100
BulletMargin == 50
RocketMargin == 100
BulletScore == 10
RocketScore == 25
BulletFlashCount == 10
RocketFlashCount == 20
ExplosionCount == 15
TurnPercent == 5                \* angleDiff * 0.05
CannonInset == 40
PI == 180

---------------------------------------------------------------------------
(* Arithmetic *)

Abs(n) == IF n < 0 THEN -n ELSE n

\* F applied to the value of v: v is evaluated once, before F
Bind(v, F(_)) == CHOOSE r \in {F(x) : x \in {v}} : TRUE

\* n / d rounded to the nearest integer, halves away from zero (d > 0)
RoundDiv(n, d) ==
    IF n >= 0 THEN (2 * n + d) \div (2 * d) ELSE -((2 * (-n) + d) \div (2 * d))

\* sin of 0..90 degrees, in thousandths
SinTab ==
 << 0, 17, 35, 52, 70, 87, 105, 122, 139, 156, 174, 191, 208,
    225, 242, 259, 276, 292, 309, 326, 342, 358, 375, 391, 407, 423,
    438, 454, 469, 485, 500, 515, 530, 545, 559, 574, 588, 602, 616,
    629, 643, 656, 669, 682, 695, 707, 719, 731, 743, 755, 766, 777,
    788, 799, 809, 819, 829, 839, 848, 857, 866, 875, 883, 891, 899,
    906, 914, 921, 927, 934, 940, 946, 951, 956, 961, 966, 970, 974,
    978, 982, 985, 988, 990, 993, 995, 996, 998, 999, 999, 1000, 1000 >>

\* Math.sin, Math.cos of an angle in degrees, in thousandths
Sin(a) ==
    LET r == a % 360
    IN  IF r <= 90 THEN SinTab[r + 1]
        ELSE IF r <= 180 THEN SinTab[180 - r + 1]
        ELSE IF r <= 270 THEN -SinTab[r - 180 + 1]
        ELSE -SinTab[360 - r + 1]

Cos(a) == Sin(a + 90)

\* Math.cos(angle) * k and Math.sin(angle) * k, in pixels
CosTimes(a, k) == RoundDiv(Cos(a) * k, 1000)
SinTimes(a, k) == RoundDiv(Sin(a) * k, 1000)

\* the whole degrees of the angle of (ax, ay), ax >= 0 and ay >= 0 and not both
\* 0: the largest b in lo..hi with tan(b) <= ay / ax, by bisection
RECURSIVE DegreesIn(_, _, _, _)
DegreesIn(ax, ay, lo, hi) ==
    IF lo = hi THEN lo
    ELSE LET mid == (lo + hi + 1) \div 2
         IN  IF ay * Cos(mid) >= ax * Sin(mid) THEN DegreesIn(ax, ay, mid, hi)
             ELSE DegreesIn(ax, ay, lo, mid - 1)

\* the angle of the quadrant of (dx, dy) that is base degrees from the x axis
Quadrant(dy, dx, base) ==
    IF dx >= 0 /\ dy >= 0 THEN base
    ELSE IF dy >= 0 THEN PI - base
    ELSE IF dx >= 0 THEN -base
    ELSE IF base = 0 THEN PI
    ELSE base - PI

\* Math.atan2(dy, dx) in degrees, in (-180, 180]; atan2(0, 0) = 0
Atan2(dy, dx) ==
    IF dx = 0 /\ dy = 0 THEN 0
    ELSE Bind(DegreesIn(Abs(dx), Abs(dy), 0, 90), LAMBDA base : Quadrant(dy, dx, base))

\* floor of Math.sqrt(n), n >= 0, by bisection of lo..hi
RECURSIVE SqrtIn(_, _, _)
SqrtIn(n, lo, hi) ==
    IF lo = hi THEN lo
    ELSE LET mid == (lo + hi + 1) \div 2
         IN  IF mid * mid <= n THEN SqrtIn(n, mid, hi) ELSE SqrtIn(n, lo, mid - 1)

Sqrt(n) == SqrtIn(n, 0, IF n < 46340 THEN n ELSE 46340)

\* Math.sqrt(n) rounded to the nearest integer
SqrtNear(n) == LET r == Sqrt(n) IN IF n - r * r > r THEN r + 1 ELSE r

\* s with its i-th element removed: Array.prototype.splice(i, 1)
Splice(s, i) == SubSeq(s, 1, i - 1) \o SubSeq(s, i + 1, Len(s))

\* n copies of p appended to s
RECURSIVE PushN(_, _, _)
PushN(s, p, n) == IF n = 0 THEN s ELSE PushN(Append(s, p), p, n - 1)

---------------------------------------------------------------------------
(* Inputs: the window, the pointer, the random source *)

SmallWindow == <<120, 120>>                     \* innerWidth, innerHeight
LargeWindow == <<6400, 4000>>
WindowSizes == {SmallWindow, <<160, 120>>}
Pointers == {<<30, 20>>, <<60, 110>>}           \* clientX, clientY
Buttons == {0, 1, 2}                            \* e.button
SpawnQuarters == {1, 2}         \* Math.random() * width, in quarters of it
EnemySizes == {20, 40}          \* Math.random() * 30 + 20
EnemySpeeds == {1, 2}           \* Math.random() * 2 + 1
FlashDecays == {30}             \* 0.02 + Math.random() * 0.02
BlastDecays == {30}             \* 0.03 + Math.random() * 0.03
IdleFlash == 30

\* the stage: the window, the pointers (straight up from the cannon, and up a
\* 3-4-5 slope), the places, sizes and speeds of the enemy put on it
StageWindow == <<240, 200>>
StagePointers == {<<120, 100>>, <<150, 120>>}
StageSpots == {<<120, 140>>, <<120, 110>>, <<120, 70>>, <<120, 71>>, <<113, 71>>,
               <<120, 30>>, <<150, 120>>, <<180, 80>>}
StageRadii == {20, 21}
StageSpeeds == {0, 1}           \* 0: an enemy held still
StageEnemies == [x : {s[1] : s \in StageSpots}, y : {s[2] : s \in StageSpots},
                 vy : StageSpeeds, radius : StageRadii]

\* the random draws of one update(): the spawned enemy, the explosions' decay
Draws ==
    [q : SpawnQuarters, size : EnemySizes, speed : EnemySpeeds, decay : BlastDecays]

---------------------------------------------------------------------------
(* CannonGame *)

\* the field initialisers of the constructor, in a window of w by h
Fields(w, h) ==
    [ mouse |-> [x |-> w \div 2, y |-> h \div 2],
      cannon |-> [x |-> 0, y |-> 0, angle |-> 0],
      canvas |-> [width |-> 0, height |-> 0],
      bullets |-> << >>, rockets |-> << >>, particles |-> << >>, enemies |-> << >>,
      bulletsFired |-> 0, rocketsFired |-> 0, score |-> 0,
      bulletCooldown |-> 0, rocketCooldown |-> 0,
      enemySpawnRate |-> SpawnRate0, enemySpawnTimer |-> 0,
      \* the stats display: the three text fields
      display |-> [score |-> 0, bullets |-> 0, rockets |-> 0],
      \* instrumentation: calls of updateStats, enemies removed by a bullet and by
      \* a rocket, update() calls, enemies that fell off the screen, enemies
      \* spawned, projectiles removed by a collision, projectiles removed with
      \* no life left, collisions of a projectile that overlapped more than one
      \* enemy, the enemy removed last, the shots fired: weapon and frame, the
      \* frame of the last spawn, the fewest frames between two spawns in a row
      \* (0: fewer than two spawns)
      statsCalls |-> 0, bulletKills |-> 0, rocketKills |-> 0, ticks |-> 0,
      fallen |-> 0, spawned |-> 0, crashes |-> 0, faded |-> 0, pileups |-> 0,
      lastKill |-> [x |-> 0, y |-> 0, vy |-> 0, radius |-> 0],
      shots |-> << >>, lastSpawn |-> 0, spawnGap |-> 0 ]

ResizeCanvas(g, w, h) ==
    [g EXCEPT !.canvas = [width |-> w, height |-> h],
              !.cannon.x = w \div 2,
              !.cannon.y = h - CannonInset]

\* updateStats() left out
UpdateStatsNever(g) == g

UpdateStats(g) ==
    [g EXCEPT !.display = [score |-> g.score, bullets |-> g.bulletsFired,
                           rockets |-> g.rocketsFired],
              !.statsCalls = @ + 1]

Particle(kind, decay) == [kind |-> kind, life |-> FullLife, decay |-> decay]

CreateMuzzleFlash(g, isRocket, decay) ==
    [g EXCEPT !.particles =
        PushN(@, Particle("flash", decay),
              IF isRocket THEN RocketFlashCount ELSE BulletFlashCount)]

\* createExplosion with its loop a round short
CreateExplosionShort(g, decay) ==
    [g EXCEPT !.particles = PushN(@, Particle("blast", decay), ExplosionCount - 1)]

CreateExplosion(g, decay) ==
    [g EXCEPT !.particles = PushN(@, Particle("blast", decay), ExplosionCount)]

\* the angle from the cannon to the pointer
AimAngle(g) == Atan2(g.mouse.y - g.cannon.y, g.mouse.x - g.cannon.x)

NewBullet(g, angle) ==
    [x |-> g.cannon.x + CosTimes(angle, BarrelLength),
     y |-> g.cannon.y + SinTimes(angle, BarrelLength),
     vx |-> CosTimes(angle, BulletSpeed),
     vy |-> SinTimes(angle, BulletSpeed),
     radius |-> BulletRadius,
     life |-> FullLife,
     born |-> g.ticks]          \* instrumentation: the frame of its creation

\* the guard of a fire command, a frame early
CoolingLate(cooldown) == cooldown > 1

\* the guard of a fire command: the weapon is still cooling down
Cooling(cooldown) == cooldown > 0

FireBullet(g, decay) ==
    IF Cooling(g.bulletCooldown) THEN g
    ELSE Bind(CreateMuzzleFlash(
                [g EXCEPT !.bullets = Append(@, Bind(AimAngle(g),
                                                     LAMBDA angle : NewBullet(g, angle))),
                          !.bulletsFired = @ + 1,
                          !.bulletCooldown = BulletCooldownFrames,
                          !.shots = Append(@, [rocket |-> FALSE, frame |-> g.ticks])],
                FALSE, decay),
              UpdateStats)

NewRocket(g, angle) ==
    [x |-> g.cannon.x + CosTimes(angle, BarrelLength),
     y |-> g.cannon.y + SinTimes(angle, BarrelLength),
     vx |-> CosTimes(angle, RocketSpeed),
     vy |-> SinTimes(angle, RocketSpeed),
     angle |-> angle,
     radius |-> RocketRadius,
     life |-> FullLife,
     thrustParticles |-> 0,
     born |-> g.ticks]          \* instrumentation: the frame of its creation

FireRocket(g, decay) ==
    IF Cooling(g.rocketCooldown) THEN g
    ELSE Bind(CreateMuzzleFlash(
                [g EXCEPT !.rockets = Append(@, Bind(AimAngle(g),
                                                     LAMBDA angle : NewRocket(g, angle))),
                          !.rocketsFired = @ + 1,
                          !.rocketCooldown = RocketCooldownFrames,
                          !.shots = Append(@, [rocket |-> TRUE, frame |-> g.ticks])],
                TRUE, decay),
              UpdateStats)

\* handleClick: the mousedown listener
HandleClick(g, button, decay) ==
    IF button = 0 THEN FireBullet(g, decay)
    ELSE IF button = 2 THEN FireRocket(g, decay)
    ELSE g

SpawnEnemy(g, d) ==
    [g EXCEPT !.enemies =
        Append(@, [x |-> (d.q * g.canvas.width) \div 4,
                   y |-> EnemyStartY,
                   vy |-> d.speed,
                   radius |-> d.size])]

\* the circle test with <= for <
HitOrTouch(p, enemy) ==
    LET dx == p.x - enemy.x
        dy == p.y - enemy.y
    IN  Sqrt(dx * dx + dy * dy) <= enemy.radius + p.radius

\* the circle test of the collision loops: Math.sqrt(dx*dx + dy*dy) is below the
\* integer sum of the radii exactly when its floor is
Hit(p, enemy) ==
    LET dx == p.x - enemy.x
        dy == p.y - enemy.y
        dist == Sqrt(dx * dx + dy * dy)
    IN  dist < enemy.radius + p.radius

\* the score of a hit, the rocket's forgotten
PointsFlat(isRocket) == BulletScore

\* the score of a hit
Points(isRocket) == IF isRocket THEN RocketScore ELSE BulletScore

\* the body of the hit branch for the enemy at index i: explosion, splice, score,
\* display
Crash(g, p, i, isRocket, decay) ==
    Bind([CreateExplosion(g, decay) EXCEPT
            !.enemies = Splice(@, i),
            !.score = @ + Points(isRocket),
            !.bulletKills = @ + (IF isRocket THEN 0 ELSE 1),
            !.rocketKills = @ + (IF isRocket THEN 1 ELSE 0),
            !.lastKill = g.enemies[i],
            !.pileups = @ + (IF \E k \in 1..(i - 1) : Hit(p, g.enemies[k])
                             THEN 1 ELSE 0)],
         UpdateStats)

\* the enemy loop without its break
RECURSIVE CollideOn(_, _, _, _, _)
CollideOn(g, p, i, isRocket, decay) ==
    IF i < 1 THEN [g |-> g, crashed |-> FALSE]
    ELSE IF Hit(p, g.enemies[i])
    THEN [g |-> CollideOn(Crash(g, p, i, isRocket, decay), p, i - 1, isRocket, decay).g,
          crashed |-> TRUE]
    ELSE CollideOn(g, p, i - 1, isRocket, decay)

\* the enemy loop of one projectile p, from index i down to 1: the first enemy hit
\* explodes and is spliced out, the score and the display are updated and the
\* loop breaks
RECURSIVE Collide(_, _, _, _, _)
Collide(g, p, i, isRocket, decay) ==
    IF i < 1 THEN [g |-> g, crashed |-> FALSE]
    ELSE IF Hit(p, g.enemies[i])
    THEN [g |-> Crash(g, p, i, isRocket, decay), crashed |-> TRUE]
    ELSE Collide(g, p, i - 1, isRocket, decay)

\* what a filter callback leaves: the game, the projectile as moved, whether it
\* is kept; c is the outcome of its enemy loop
Filtered(c, p, alive) ==
    IF c.crashed
    THEN [g |-> [c.g EXCEPT !.crashes = @ + 1], keep |-> FALSE, p |-> p]
    ELSE [g |-> [c.g EXCEPT !.faded = @ + (IF p.life > 0 THEN 0 ELSE 1)],
          keep |-> alive, p |-> p]

BulletMoved(bullet) ==
    [bullet EXCEPT !.x = @ + bullet.vx, !.y = @ + bullet.vy, !.life = @ - BulletFade]

\* the bullet's return value without its life test
BulletOnScreen(g, b) ==
    /\ b.x > -BulletMargin
    /\ b.x < g.canvas.width + BulletMargin
    /\ b.y > -BulletMargin
    /\ b.y < g.canvas.height + BulletMargin

BulletAlive(g, b) ==
    /\ b.life > 0
    /\ b.x > -BulletMargin
    /\ b.x < g.canvas.width + BulletMargin
    /\ b.y > -BulletMargin
    /\ b.y < g.canvas.height + BulletMargin

\* the filter callback of the bullets
BulletStep(g, bullet, decay) ==
    Bind(BulletMoved(bullet), LAMBDA b :
        Bind(Collide(g, b, Len(g.enemies), FALSE, decay), LAMBDA c :
            Filtered(c, b, BulletAlive(g, b))))

\* the angle difference left as it is
NormalizeAngleNever(d) == d

\* the angle difference brought back by whole turns: the two while loops
RECURSIVE NormalizeAngle(_)
NormalizeAngle(d) ==
    IF d > PI THEN NormalizeAngle(d - 2 * PI)
    ELSE IF d < -PI THEN NormalizeAngle(d + 2 * PI)
    ELSE d

\* the heading turned by a fraction of its difference to the target angle
Turned(angle, targetAngle) ==
    angle + RoundDiv(NormalizeAngle(targetAngle - angle) * TurnPercent, 100)

\* the rocket along the heading angle at the given speed
Steered(rocket, angle, speed) ==
    Bind(<<CosTimes(angle, speed), SinTimes(angle, speed)>>, LAMBDA v :
        [rocket EXCEPT !.angle = angle, !.vx = v[1], !.vy = v[2],
                       !.x = @ + v[1], !.y = @ + v[2]])

\* the homing part of the rockets' filter callback: heading, velocity, position
Home(g, rocket) ==
    Bind(Turned(rocket.angle, Atan2(g.mouse.y - rocket.y, g.mouse.x - rocket.x)),
         LAMBDA angle :
            Bind(SqrtNear(rocket.vx * rocket.vx + rocket.vy * rocket.vy),
                 LAMBDA speed : Steered(rocket, angle, speed)))

RocketMoved(g, rocket) ==
    [Home(g, rocket) EXCEPT !.thrustParticles = @ + 1, !.life = @ - RocketFade]

\* every second frame of a rocket leaves a thrust particle
Thrust(g, r) ==
    IF r.thrustParticles % 2 = 0
    THEN [g EXCEPT !.particles = Append(@, Particle("thrust", ThrustDecay))]
    ELSE g

\* the rocket's return value without its life test
RocketOnScreen(g, r) ==
    /\ r.x > -RocketMargin
    /\ r.x < g.canvas.width + RocketMargin
    /\ r.y > -RocketMargin
    /\ r.y < g.canvas.height + RocketMargin

RocketAlive(g, r) ==
    /\ r.life > 0
    /\ r.x > -RocketMargin
    /\ r.x < g.canvas.width + RocketMargin
    /\ r.y > -RocketMargin
    /\ r.y < g.canvas.height + RocketMargin

\* the filter callback of the rockets
RocketStep(g, rocket, decay) ==
    Bind(RocketMoved(g, rocket), LAMBDA r :
        Bind(Thrust(g, r), LAMBDA g1 :
            Bind(Collide(g1, r, Len(g1.enemies), TRUE, decay), LAMBDA c :
                Filtered(c, r, RocketAlive(g, r)))))

\* this.bullets.filter(...): the callback on the bullets at lo..hi in order, by
\* halves; kept collects the survivors, g.bullets is the array being filtered
RECURSIVE FilterBullets(_, _, _, _, _)
FilterBullets(g, lo, hi, kept, decay) ==
    IF lo > hi THEN [g |-> g, kept |-> kept]
    ELSE IF lo = hi
    THEN Bind(BulletStep(g, g.bullets[lo], decay), LAMBDA s :
            [g |-> s.g, kept |-> IF s.keep THEN Append(kept, s.p) ELSE kept])
    ELSE Bind(FilterBullets(g, lo, (lo + hi) \div 2, kept, decay), LAMBDA h :
            FilterBullets(h.g, (lo + hi) \div 2 + 1, hi, h.kept, decay))

\* this.rockets.filter(...), likewise
RECURSIVE FilterRockets(_, _, _, _, _)
FilterRockets(g, lo, hi, kept, decay) ==
    IF lo > hi THEN [g |-> g, kept |-> kept]
    ELSE IF lo = hi
    THEN Bind(RocketStep(g, g.rockets[lo], decay), LAMBDA s :
            [g |-> s.g, kept |-> IF s.keep THEN Append(kept, s.p) ELSE kept])
    ELSE Bind(FilterRockets(g, lo, (lo + hi) \div 2, kept, decay), LAMBDA h :
            FilterRockets(h.g, (lo + hi) \div 2 + 1, hi, h.kept, decay))

\* this.enemies = this.enemies.filter(...)
MoveEnemies(g) ==
    Bind(SelectSeq([i \in 1..Len(g.enemies) |->
                      [g.enemies[i] EXCEPT !.y = @ + g.enemies[i].vy]],
                   LAMBDA e : e.y < g.canvas.height + EnemyMargin),
         LAMBDA kept :
            [g EXCEPT !.enemies = kept,
                      !.fallen = @ + Len(g.enemies) - Len(kept)])

\* this.particles = this.particles.filter(...)
MoveParticles(g) ==
    LET aged == [i \in 1..Len(g.particles) |->
                    [g.particles[i] EXCEPT !.life = @ - g.particles[i].decay]]
    IN  [g EXCEPT !.particles = SelectSeq(aged, LAMBDA p : p.life > 0)]

\* the difficulty ramp without its floor
RampedOn(rate) == rate - SpawnRateStep

\* the difficulty ramp: the spawn interval after a spawn
Ramped(rate) == IF rate > SpawnRateFloor THEN rate - SpawnRateStep ELSE rate

\* the instrumentation of a spawn in frame g.ticks
SpawnLogged(g) ==
    [g EXCEPT !.spawned = @ + 1,
              !.lastSpawn = g.ticks,
              !.spawnGap = IF g.spawned = 0 THEN 0
                           ELSE IF @ = 0 \/ g.ticks - g.lastSpawn < @
                                THEN g.ticks - g.lastSpawn
                                ELSE @]

\* the spawn scheduler with >= for >
SpawnScheduleAtRate(g, d) ==
    IF 2 * (g.enemySpawnTimer + 1) >= g.enemySpawnRate
    THEN [SpawnLogged(SpawnEnemy(g, d)) EXCEPT
            !.enemySpawnTimer = 0,
            !.enemySpawnRate = Ramped(@)]
    ELSE [g EXCEPT !.enemySpawnTimer = @ + 1]

\* the spawn scheduler at the head of update()
SpawnSchedule(g, d) ==
    IF 2 * (g.enemySpawnTimer + 1) > g.enemySpawnRate
    THEN [SpawnLogged(SpawnEnemy(g, d)) EXCEPT
            !.enemySpawnTimer = 0,
            !.enemySpawnRate = Ramped(@)]
    ELSE [g EXCEPT !.enemySpawnTimer = @ + 1]

\* the cooldowns running down two frames in one
CooldownSkip(g) ==
    [g EXCEPT !.bulletCooldown = IF @ > 1 THEN @ - 2 ELSE 0,
              !.rocketCooldown = IF @ > 1 THEN @ - 2 ELSE 0]

CooldownDecay(g) ==
    [g EXCEPT !.bulletCooldown = IF @ > 0 THEN @ - 1 ELSE @,
              !.rocketCooldown = IF @ > 0 THEN @ - 1 ELSE @]

\* the cannon angle left as it was
AimKept(g) == g

Aim(g) == [g EXCEPT !.cannon.angle = AimAngle(g)]

\* update(), with the random draws d of this frame
Update(g, d) ==
    Bind(SpawnSchedule([g EXCEPT !.ticks = @ + 1], d), LAMBDA g1 :
     Bind(CooldownDecay(g1), LAMBDA g2 :
      Bind(Aim(g2), LAMBDA g3 :
       Bind(MoveEnemies(g3), LAMBDA g4 :
        Bind(FilterBullets(g4, 1, Len(g4.bullets), << >>, d.decay), LAMBDA b :
         Bind(FilterRockets([b.g EXCEPT !.bullets = b.kept], 1, Len(b.g.rockets),
                            << >>, d.decay), LAMBDA r :
          MoveParticles([r.g EXCEPT !.rockets = r.kept])))))))

\* new CannonGame() in a window of w by h: init() sizes the canvas and animate()
\* runs update() once
Construct(w, h) ==
    Bind(ResizeCanvas(Fields(w, h), w, h), LAMBDA g :
        Update(g, CHOOSE d \in Draws : TRUE))

---------------------------------------------------------------------------
(* Start states: the game after construction and a scripted prefix of inputs *)

\* the draws of the frames without input: the second enemy falls slowly, the
\* others fast, all large and in the middle of the canvas
IdleDraw(g) ==
    [q |-> 2, size |-> 40, speed |-> IF g.spawned = 1 THEN 1 ELSE 2, decay |-> 30]

\* n frames without input, by halves
RECURSIVE Idle(_, _)
Idle(g, n) ==
    IF n = 0 THEN g
    ELSE IF n = 1 THEN Update(g, IdleDraw(g))
    ELSE Bind(Idle(g, n \div 2), LAMBDA h : Idle(h, n - n \div 2))

\* new CannonGame() and nothing else
SceneFresh(size) == Construct(size[1], size[2])

\* age frames without input
SceneIdle(size, age) == Bind(SceneFresh(size), LAMBDA g : Idle(g, age))

\* a rocket, RocketLead frames, a bullet, BulletLead frames
SceneShots(size) ==
    Bind(FireRocket(SceneFresh(size), IdleFlash), LAMBDA g1 :
     Bind(Idle(g1, RocketLead), LAMBDA g2 :
      Bind(FireBullet(g2, IdleFlash), LAMBDA g3 : Idle(g3, BulletLead))))

\* a rocket, and a bullet BulletAge frames before the rocket is RocketAge frames
\* old
SceneFade(size) ==
    Bind(FireRocket(SceneFresh(size), IdleFlash), LAMBDA g1 :
     Bind(Idle(g1, RocketAge - BulletAge), LAMBDA g2 :
      Bind(FireBullet(g2, IdleFlash), LAMBDA g3 : Idle(g3, BulletAge))))

\* a frame with both buttons pressed before it: a left click, a right click,
\* update()
RapidFrame(g) ==
    Bind(FireBullet(g, IdleFlash), LAMBDA g1 :
     Bind(FireRocket(g1, IdleFlash), LAMBDA g2 : Update(g2, IdleDraw(g2))))

\* n such frames, by halves
RECURSIVE Rapid(_, _)
Rapid(g, n) ==
    IF n = 0 THEN g
    ELSE IF n = 1 THEN RapidFrame(g)
    ELSE Bind(Rapid(g, n \div 2), LAMBDA h : Rapid(h, n - n \div 2))

\* age frames of both weapons fired as fast as they go
SceneBarrage(size, age) == Bind(SceneFresh(size), LAMBDA g : Rapid(g, age))

\* the stage of a test of update(): a new game, the pointer at p and one enemy
\* put on the canvas
Stage(size, p, enemy) ==
    Bind(SceneFresh(size), LAMBDA g :
        Aim([g EXCEPT !.mouse = [x |-> p[1], y |-> p[2]], !.enemies = <<enemy>>]))

NoRun == [ticks |-> 0, inputs |-> 0]

\* a page with the game only, a page with the water demo only
NoWater == "no WaterSimulation"
NoGame == "no CannonGame"

---------------------------------------------------------------------------
(* Events *)

\* the mousemove listener
MouseMove(p) ==
    /\ run.inputs < MaxInputs
    /\ game' = [game EXCEPT !.mouse = [x |-> p[1], y |-> p[2]]]
    /\ run' = [run EXCEPT !.inputs = @ + 1]
    /\ UNCHANGED water

\* the mousedown listener
MouseDown(button, decay) ==
    /\ game' = HandleClick(game, button, decay)
    /\ UNCHANGED <<run, water>>

\* the resize listener
Resize(size) ==
    /\ run.inputs < MaxInputs
    /\ game' = ResizeCanvas(game, size[1], size[2])
    /\ run' = [run EXCEPT !.inputs = @ + 1]
    /\ UNCHANGED water

\* the draws update() makes in this frame: an enemy when the scheduler spawns,
\* the decay of the particles of an explosion
DrawsFor(g) ==
    {d \in Draws :
        /\ \/ 2 * (g.enemySpawnTimer + 1) > g.enemySpawnRate
           \/ (d.q = IdleDraw(g).q /\ d.size = IdleDraw(g).size
               /\ d.speed = IdleDraw(g).speed)
        /\ d.decay \in BlastDecays}

\* one animation frame: animate() calls update()
Tick(d) ==
    /\ run.ticks < MaxTicks
    /\ game' = Update(game, d)
    /\ run' = [run EXCEPT !.ticks = @ + 1]
    /\ UNCHANGED water

Next ==
    \/ \E p \in Pointers : MouseMove(p)
    \/ \E button \in Buttons, decay \in FlashDecays : MouseDown(button, decay)
    \/ \E size \in WindowSizes : Resize(size)
    \/ \E d \in DrawsFor(game) : Tick(d)

---------------------------------------------------------------------------
(* Specifications: every event, from a set of start states *)

\* play: a new game, a game about to spawn its first enemy, a game with enemies
Init ==
    /\ game \in {SceneFresh(SmallWindow), SceneIdle(SmallWindow, WarmAge),
                 SceneIdle(SmallWindow, LateAge)}
    /\ run = NoRun
    /\ water = NoWater

Spec == Init /\ [][Next]_vars

\* both weapons cooling down
InitShots ==
    /\ game \in {SceneFresh(SmallWindow), SceneShots(SmallWindow)}
    /\ run = NoRun
    /\ water = NoWater

SpecShots == InitShots /\ [][Next]_vars

\* the spawn interval reaching its floor, and at its floor
InitRamp ==
    /\ game \in {SceneIdle(SmallWindow, RampAge), SceneIdle(SmallWindow, FloorAge)}
    /\ run = NoRun
    /\ water = NoWater

SpecRamp == InitRamp /\ [][Next]_vars

\* projectiles at the end of their life, in a window they do not leave
InitFade ==
    /\ game \in {SceneFade(LargeWindow), SceneFresh(LargeWindow)}
    /\ run = NoRun
    /\ water = NoWater

SpecFade == InitFade /\ [][Next]_vars

\* both stores at their fullest, in a window the projectiles do not leave: the
\* twelfth rocket is about to be fired or has just been fired
InitBarrage ==
    /\ game \in {SceneBarrage(LargeWindow, BarrageAge),
                 SceneBarrage(LargeWindow, BarrageAge + 1)}
    /\ run = NoRun
    /\ water = NoWater

SpecBarrage == InitBarrage /\ [][Next]_vars

\* one enemy put on the canvas of a new game; fire commands and frames
InitStage ==
    /\ game \in {Stage(StageWindow, p, e) :
                    p \in StagePointers,
                    e \in {en \in StageEnemies : <<en.x, en.y>> \in StageSpots}}
    /\ run = NoRun
    /\ water = NoWater

NextStage ==
    \/ \E button \in Buttons, decay \in FlashDecays : MouseDown(button, decay)
    \/ \E d \in DrawsFor(game) : Tick(d)

SpecStage == InitStage /\ [][NextStage]_vars

---------------------------------------------------------------------------
(* WaterSimulation (script.js): influences in thousandths *)

WaterOne == 1000            \* targetInfluence = 1.0
InfluenceDivisor == 10      \* * 0.1
MaxDpr == 2                 \* Math.min(devicePixelRatio || 1, 2)

WaterWindow == <<40, 30>>                       \* innerWidth, innerHeight
WaterWindows == {WaterWindow, <<50, 20>>}
PixelRatios == {0, 1, 3}                        \* devicePixelRatio; 0: not defined
UniformNames == {"time", "resolution", "mouse", "mouseInfluence"}
MoveEvents == {"mousemove", "touchmove", "touchstart"}
EnterEvents == {"mouseenter"}
LeaveEvents == {"mouseleave", "touchend"}
PointerEvents == MoveEvents \cup EnterEvents \cup LeaveEvents
WaterPointers == {<<10, 5>>, <<25, 30>>}        \* clientX, clientY

\* what the browser and the GPU driver answer: getContext, the COMPILE_STATUS of
\* the two shaders, the LINK_STATUS of the program
Environments ==
    [context : BOOLEAN, vertex : BOOLEAN, fragment : BOOLEAN, link : BOOLEAN,
     ratio : PixelRatios]

\* the fields the constructor sets, the page (canvas, listeners, console, the
\* pending requestAnimationFrame callback) and the calls made on the context
WaterFields(env) ==
    [env |-> env, inner |-> WaterWindow,
     gl |-> FALSE, program |-> "null", uniforms |-> {},
     mouse |-> [x |-> 0, y |-> 0], mouseInfluence |-> 0, targetInfluence |-> 0,
     canvas |-> [width |-> 0, height |-> 0, background |-> "none"],
     viewport |-> <<0, 0>>, listeners |-> {}, pending |-> FALSE,
     errors |-> 0, warnings |-> 0, fallbacks |-> 0,
     inUse |-> FALSE, geometry |-> FALSE,
     uniformCalls |-> 0, drawCalls |-> 0,
     fed |-> [mouse |-> [x |-> 0, y |-> 0], mouseInfluence |-> 0],
     event |-> [type |-> "none", x |-> 0, y |-> 0, inner |-> WaterWindow],
     framesSince |-> 0]

\* Math.min(window.devicePixelRatio || 1, 2)
Dpr(w) ==
    LET r == IF w.env.ratio = 0 THEN 1 ELSE w.env.ratio
    IN  IF r < MaxDpr THEN r ELSE MaxDpr

\* resizeCanvas() in a window of size
WaterResizeCanvas(w, size) ==
    LET width == size[1] * Dpr(w)
        height == size[2] * Dpr(w)
    IN  [w EXCEPT !.inner = size,
                  !.canvas.width = width, !.canvas.height = height,
                  !.viewport = IF w.gl THEN <<width, height>> ELSE @]

ShowFallback(w) ==
    [w EXCEPT !.canvas.background = "gradient",
              !.warnings = @ + 1,
              !.fallbacks = @ + 1]

\* compileShader(): the shader, or null and an error on the console
CompileShader(w, compiles) ==
    [w |-> IF compiles THEN w ELSE [w EXCEPT !.errors = @ + 1], shader |-> compiles]

\* setupShaders() that goes on without looking at the LINK_STATUS
SetupShadersUnlinked(w) ==
    LET v == CompileShader(w, w.env.vertex)
        f == CompileShader(v.w, w.env.fragment)
    IN  IF ~v.shader \/ ~f.shader THEN ShowFallback(f.w)
        ELSE [f.w EXCEPT !.program = IF w.env.link THEN "linked" ELSE "unlinked",
                         !.inUse = TRUE,
                         !.geometry = TRUE,
                         !.uniforms = UniformNames]

\* setupShaders(): this.program is assigned before the program is linked
SetupShaders(w) ==
    LET v == CompileShader(w, w.env.vertex)
        f == CompileShader(v.w, w.env.fragment)
    IN  IF ~v.shader \/ ~f.shader THEN ShowFallback(f.w)
        ELSE IF ~w.env.link
        THEN ShowFallback([f.w EXCEPT !.program = "unlinked", !.errors = @ + 1])
        ELSE [f.w EXCEPT !.program = "linked",
                         !.inUse = TRUE,
                         !.geometry = TRUE,
                         !.uniforms = UniformNames]

\* the closure updateMouse of setupMouseEvents()
UpdateMouse(w, x, y) ==
    [w EXCEPT !.mouse = [x |-> x * Dpr(w), y |-> (w.inner[2] - y) * Dpr(w)],
              !.targetInfluence = WaterOne]

\* setupMouseEvents(): the six listeners on the canvas; script.js never calls it
SetupMouseEvents(w) == [w EXCEPT !.listeners = @ \cup PointerEvents]

\* the listener of an event type
Listener(w, e) ==
    IF e.type \in MoveEvents THEN UpdateMouse(w, e.x, e.y)
    ELSE IF e.type \in EnterEvents THEN [w EXCEPT !.targetInfluence = WaterOne]
    ELSE IF e.type \in LeaveEvents THEN [w EXCEPT !.targetInfluence = 0]
    ELSE WaterResizeCanvas(w, <<e.x, e.y>>)

\* the browser dispatching e: the listener runs if one was added for its type
Dispatch(w, e) ==
    [(IF e.type \in w.listeners THEN Listener(w, e) ELSE w) EXCEPT
        !.event = IF e.type \in PointerEvents
                  THEN [type |-> e.type, x |-> e.x, y |-> e.y, inner |-> w.inner]
                  ELSE @,
        !.framesSince = IF e.type \in PointerEvents THEN 0 ELSE @]

\* animate(): the guard, the influence, four uniform calls, the draw, the next
\* frame requested
Animate(w) ==
    IF ~w.gl \/ w.program = "null" THEN w
    ELSE LET influence == w.mouseInfluence
                + RoundDiv(w.targetInfluence - w.mouseInfluence, InfluenceDivisor)
         IN  [w EXCEPT !.mouseInfluence = influence,
                       !.uniformCalls = @ + 4,
                       !.fed = [mouse |-> w.mouse, mouseInfluence |-> influence],
                       !.drawCalls = @ + 1,
                       !.pending = TRUE,
                       !.framesSince = @ + 1]

\* init(): the canvas sized, the resize listener, the context, the shaders, the
\* first frame
WaterInit(w) ==
    LET sized == [WaterResizeCanvas(w, w.inner) EXCEPT
                    !.listeners = @ \cup {"resize"},
                    !.gl = w.env.context]
    IN  IF ~sized.gl THEN ShowFallback([sized EXCEPT !.errors = @ + 1])
        ELSE Animate(SetupShaders(sized))

\* new WaterSimulation()
NewWaterSimulation(env) == WaterInit(WaterFields(env))

\* the requestAnimationFrame callback
WaterFrame ==
    /\ run.ticks < MaxWaterFrames
    /\ water.pending
    /\ water' = Animate([water EXCEPT !.pending = FALSE])
    /\ run' = [run EXCEPT !.ticks = @ + 1]
    /\ UNCHANGED game

\* a mouse or touch event on the canvas
WaterPointer(type, p) ==
    /\ run.inputs < MaxWaterEvents
    /\ water' = Dispatch(water, [type |-> type, x |-> p[1], y |-> p[2]])
    /\ run' = [run EXCEPT !.inputs = @ + 1]
    /\ UNCHANGED game

\* the window resized
WaterResize(size) ==
    /\ run.inputs < MaxWaterEvents
    /\ water' = Dispatch(water, [type |-> "resize", x |-> size[1], y |-> size[2]])
    /\ run' = [run EXCEPT !.inputs = @ + 1]
    /\ UNCHANGED game

InitWater ==
    /\ water \in {NewWaterSimulation(env) : env \in Environments}
    /\ game = NoGame
    /\ run = NoRun

NextWater ==
    \/ WaterFrame
    \/ \E type \in PointerEvents, p \in WaterPointers : WaterPointer(type, p)
    \/ \E size \in WaterWindows : WaterResize(size)

SpecWater == InitWater /\ [][NextWater]_vars

---------------------------------------------------------------------------
(* Properties *)

\* a frame: the step is an update()
Frame == game'.ticks # game.ticks

\* the shots of one weapon, in the order fired
ShotsOf(isRocket) == SelectSeq(game.shots, LAMBDA sh : sh.rocket = isRocket)

\* the frames between shot i and shot j of a log
Gap(log, i, j) == log[j].frame - log[i].frame

\* C1: a weapon does not fire again before its cooldown has run out: any two
\* bullets ever fired are at least 8 update ticks apart, any two rockets at
\* least 30, and so are the bullets and the rockets in the stores.
C1_CooldownSeparatesShots ==
    /\ \A i, j \in 1..Len(ShotsOf(FALSE)) : i < j => Gap(ShotsOf(FALSE), i, j) >= 8
    /\ \A i, j \in 1..Len(ShotsOf(TRUE)) : i < j => Gap(ShotsOf(TRUE), i, j) >= 30
    /\ \A i, j \in 1..Len(game.bullets) :
            i < j => game.bullets[j].born - game.bullets[i].born >= 8
    /\ \A i, j \in 1..Len(game.rockets) :
            i < j => game.rockets[j].born - game.rockets[i].born >= 30

\* a second bullet exactly 8 frames after the first and a second rocket exactly
\* 30 frames after the first
C1_Witness ==
    /\ Len(ShotsOf(FALSE)) = 2 /\ Gap(ShotsOf(FALSE), 1, 2) = 8
    /\ Len(ShotsOf(TRUE)) = 2 /\ Gap(ShotsOf(TRUE), 1, 2) = 30

\* C2: a fire command issued while its weapon's cooldown is above zero changes
\* nothing (stores, counters, score, cooldowns, display calls), and no frame
\* creates a projectile for it later: frames never add a shot or a projectile.
C2_DroppedCommand ==
    /\ [](\A decay \in FlashDecays :
            /\ game.bulletCooldown > 0 => HandleClick(game, 0, decay) = game
            /\ game.rocketCooldown > 0 => HandleClick(game, 2, decay) = game)
    /\ [][Frame => /\ game'.shots = game.shots
                   /\ game'.bulletsFired = game.bulletsFired
                   /\ game'.rocketsFired = game.rocketsFired
                   /\ Len(game'.bullets) <= Len(game.bullets)
                   /\ Len(game'.rockets) <= Len(game.rockets)
                   /\ game'.statsCalls - game.statsCalls
                        = game'.crashes - game.crashes]_vars

\* the frame in which the bullet's cooldown has run out, 8 frames of dropped
\* commands after the one bullet fired, the rocket still cooling down
C2_Witness ==
    /\ game.bulletsFired = 1
    /\ Len(ShotsOf(FALSE)) = 1
    /\ game.ticks = ShotsOf(FALSE)[1].frame + 8
    /\ game.bulletCooldown = 0
    /\ game.rocketCooldown > 0
    /\ run.ticks > 0

\* C3: the score is 10 for every enemy removed by a bullet plus 25 for every
\* enemy removed by a rocket, and no event but a frame changes it.
C3_ScoreIsKills ==
    /\ [](game.score = 10 * game.bulletKills + 25 * game.rocketKills)
    /\ [][~Frame => game'.score = game.score]_vars

\* a bullet kill and a rocket kill, after an enemy fell off the screen and
\* shots were fired
C3_Witness ==
    /\ game.bulletKills > 0
    /\ game.rocketKills > 0
    /\ game.fallen > 0
    /\ game.score = 35

\* C4: updateStats is called once per shot fired and once per enemy removed by a
\* collision, and never else: its calls number bulletsFired + rocketsFired +
\* kills, and the display shows the counters.
C4_StatsCalls ==
    /\ game.statsCalls
         = game.bulletsFired + game.rocketsFired + game.bulletKills + game.rocketKills
    /\ game.statsCalls > 0 =>
            game.display = [score |-> game.score, bullets |-> game.bulletsFired,
                            rockets |-> game.rocketsFired]

\* two shots and two kills: four calls
C4_Witness ==
    /\ game.statsCalls = 4
    /\ game.bulletsFired = 1 /\ game.rocketsFired = 1
    /\ game.bulletKills = 1 /\ game.rocketKills = 1

\* C5: enemySpawnRate never increases, changes only in a frame that spawns an
\* enemy and then by 0.5 (one half frame), and is never below 20 (40 half
\* frames) nor above its initial 60.
C5_SpawnRateRamp ==
    /\ [](game.enemySpawnRate >= 40 /\ game.enemySpawnRate <= 120)
    /\ [][/\ game'.enemySpawnRate <= game.enemySpawnRate
          /\ game'.enemySpawnRate # game.enemySpawnRate =>
                /\ Frame
                /\ game'.spawned = game.spawned + 1
                /\ game.enemySpawnRate - game'.enemySpawnRate = 1]_vars

\* at the floor after a spawn that found the interval at its floor and left it
\* there
C5_Witness ==
    /\ game.enemySpawnRate = 40
    /\ game.spawned > 120 - 40
    /\ run.ticks > 0

\* C6: the life of a bullet falls by 0.005 and that of a rocket by 0.003 in every
\* frame that processes it, and a projectile whose life is used up is not in its
\* store: every stored projectile has 0 < life <= 1.
C6_LifeFades ==
    /\ [](/\ \A i \in 1..Len(game.bullets) :
                /\ game.bullets[i].life > 0 /\ game.bullets[i].life <= 1000
                /\ game.bullets[i].life
                     = 1000 - 5 * (game.ticks - game.bullets[i].born)
          /\ \A i \in 1..Len(game.rockets) :
                /\ game.rockets[i].life > 0 /\ game.rockets[i].life <= 1000
                /\ game.rockets[i].life
                     = 1000 - 3 * (game.ticks - game.rockets[i].born))
    /\ [][Frame =>
            /\ \A i \in 1..Len(game'.bullets) : \E k \in 1..Len(game.bullets) :
                    /\ game.bullets[k].born = game'.bullets[i].born
                    /\ game'.bullets[i].life = game.bullets[k].life - 5
            /\ \A i \in 1..Len(game'.rockets) : \E k \in 1..Len(game.rockets) :
                    /\ game.rockets[k].born = game'.rockets[i].born
                    /\ game'.rockets[i].life = game.rockets[k].life - 3]_vars

\* the bullet and the rocket have both used up their life and left the stores
C6_Witness ==
    /\ game.faded = 2
    /\ game.crashes = 0
    /\ game.bulletsFired = 1 /\ game.bullets = << >>
    /\ game.rocketsFired = 1 /\ game.rockets = << >>

\* the circles of p and e overlap: the centres are closer than the radii's sum
Overlap(p, e) ==
    (p.x - e.x) * (p.x - e.x) + (p.y - e.y) * (p.y - e.y)
        < (p.radius + e.radius) * (p.radius + e.radius)

\* the circles of p and e touch: the centres are the radii's sum apart
Touch(p, e) ==
    (p.x - e.x) * (p.x - e.x) + (p.y - e.y) * (p.y - e.y)
        = (p.radius + e.radius) * (p.radius + e.radius)

\* the enemies of this state as the next frame moves them, those that fall off
\* the screen dropped
MovedEnemies ==
    SelectSeq([i \in 1..Len(game.enemies) |->
                  [game.enemies[i] EXCEPT !.y = @ + game.enemies[i].vy]],
              LAMBDA e : e.y < game.canvas.height + 100)

\* the first bullet of this state as the next frame moves it
BulletAhead ==
    [x |-> game.bullets[1].x + game.bullets[1].vx,
     y |-> game.bullets[1].y + game.bullets[1].vy,
     radius |-> game.bullets[1].radius]

\* the sequence s without its element m
Without(s, m) == [k \in 1..(Len(s) - 1) |-> IF k < m THEN s[k] ELSE s[k + 1]]

\* the largest element of a nonempty set of numbers
Highest(S) == CHOOSE m \in S : \A k \in S : k <= m

\* C7: a projectile removes at most one enemy per frame: the enemies removed by
\* collisions number the projectiles removed by collisions, in every frame; and
\* a lone bullet that overlaps several enemies removes the one of the highest
\* index (the first in the scan from the last index down) and leaves the others.
C7_OneEnemyPerProjectile ==
    /\ [](game.crashes = game.bulletKills + game.rocketKills)
    /\ [][Frame =>
            /\ game'.crashes - game.crashes <= Len(game.bullets) + Len(game.rockets)
            /\ Len(game'.enemies)
                 = Len(game.enemies) + (game'.spawned - game.spawned)
                    - (game'.fallen - game.fallen) - (game'.crashes - game.crashes)
            /\ (Len(game.bullets) = 1 /\ game.rockets = << >>
                    /\ game'.spawned = game.spawned) =>
                 LET over == {k \in 1..Len(MovedEnemies) :
                                Overlap(BulletAhead, MovedEnemies[k])}
                 IN  game'.enemies = IF over = {} THEN MovedEnemies
                                     ELSE Without(MovedEnemies, Highest(over))]_vars

\* a bullet that overlapped two enemies has removed one, and only one: the other
\* is still in the store
C7_Witness ==
    /\ game.pileups = 1
    /\ game.crashes = 1
    /\ game.bulletKills = 1
    /\ game.rocketsFired = 0
    /\ Len(game.enemies) + game.fallen + 1 = game.spawned

\* the lone projectile of this state as the next frame moves it
ProjectileAhead ==
    IF game.bullets # << >> THEN BulletMoved(game.bullets[1])
    ELSE RocketMoved(game, game.rockets[1])

\* C8: the collision test is exact and symmetric: in a frame with one projectile
\* and one enemy the enemy is removed exactly when the centres, as moved, are
\* closer than the sum of the radii (the same distance is no hit), and the test
\* gives the same answer with the two circles swapped.
C8_ExactSymmetricTest ==
    [][(Frame /\ Len(game.enemies) = 1 /\ Len(game.bullets) + Len(game.rockets) = 1
            /\ game'.spawned = game.spawned /\ game'.fallen = game.fallen) =>
        /\ (game'.enemies = << >>) <=> Overlap(ProjectileAhead, MovedEnemies[1])
        /\ Hit(ProjectileAhead, MovedEnemies[1])
                <=> Overlap(ProjectileAhead, MovedEnemies[1])
        /\ Hit(ProjectileAhead, MovedEnemies[1])
                <=> Hit(MovedEnemies[1], ProjectileAhead)]_vars

\* a frame has moved a bullet to exactly the sum of the radii from the enemy, and
\* both are still in their stores
C8_Witness ==
    /\ Len(game.bullets) = 1 /\ Len(game.enemies) = 1
    /\ game.bullets[1].born < game.ticks
    /\ Touch(game.bullets[1], game.enemies[1])

\* e is held still on the firing line, on the canvas, no nearer to the cannon
\* than the muzzle
OnFiringLine(e) ==
    LET ux == game.mouse.x - game.cannon.x
        uy == game.mouse.y - game.cannon.y
        ex == e.x - game.cannon.x
        ey == e.y - game.cannon.y
    IN  /\ e.vy = 0
        /\ ux * ey - uy * ex = 0
        /\ ux * ex + uy * ey > 0
        /\ ex * ex + ey * ey >= 50 * 50
        /\ e.x >= 0 /\ e.x <= game.canvas.width
        /\ e.y >= 0 /\ e.y <= game.canvas.height

\* the bullet b, fired along the firing line, has not come within the radii's sum
\* of e, nor passed it, and is no older than the frames the way to e takes
ShortOf(b, e) ==
    LET ux == game.mouse.x - game.cannon.x
        uy == game.mouse.y - game.cannon.y
        ex == e.x - game.cannon.x
        ey == e.y - game.cannon.y
        way == ux * (e.x - b.x) + uy * (e.y - b.y)
        age == game.ticks - b.born
    IN  /\ way > 0
        /\ way * way >= (e.radius + b.radius) * (e.radius + b.radius)
                            * (ux * ux + uy * uy)
        /\ (15 * age) * (15 * age) <= ex * ex + ey * ey

\* the particles of explosions in the store
Blasts(g) == Len(SelectSeq(g.particles, LAMBDA q : q.kind = "blast"))

\* C9: a bullet fired at an enemy held still on the firing line (on the canvas,
\* from the muzzle on) removes it within the frames its way takes: while both
\* are in the stores the bullet is short of the enemy, never past it, and the
\* frame that brings them together removes both, appends 15 explosion particles
\* and adds exactly 10 to the score.
C9_BulletMeetsStillEnemy ==
    /\ [](\A i \in 1..Len(game.bullets), k \in 1..Len(game.enemies) :
            (OnFiringLine(game.enemies[k]) /\ game.bullets[i].born < game.ticks)
                => ShortOf(game.bullets[i], game.enemies[k]))
    /\ [][(Frame /\ Len(game.enemies) = 1 /\ OnFiringLine(game.enemies[1])
                 /\ Len(game.bullets) = 1 /\ game.rockets = << >>) =>
            \/ /\ game'.enemies = game.enemies
               /\ Len(game'.bullets) = 1
               /\ game'.score = game.score
               /\ Blasts(game') = Blasts(game)
            \/ /\ game'.enemies = << >>
               /\ game'.bullets = << >>
               /\ game'.score = game.score + 10
               /\ Blasts(game') = Blasts(game) + 15
               /\ game'.lastKill = game.enemies[1]]_vars

\* the bullet has removed the still enemy on its firing line, frames after it
\* was fired: no enemy, no bullet, 15 explosion particles, 10 points
C9_Witness ==
    /\ OnFiringLine(game.lastKill)
    /\ game.bulletKills = 1 /\ game.rocketsFired = 0
    /\ game.enemies = << >> /\ game.bullets = << >>
    /\ game.score = 10
    /\ Blasts(game) = 15
    /\ game.ticks >= game.shots[1].frame + 3

\* C10, as claimed: the cannon's angle is atan2(pointer - cannon) in every
\* reachable state.
C10_AngleAlways == game.cannon.angle = AimAngle(game)

\* C10, amended: the cannon's angle is atan2(pointer - cannon) after construction
\* and after every update(); an event that is no update() leaves the angle as the
\* last update() set it, whatever it does to the pointer and the cannon.
C10_AngleAfterUpdate ==
    /\ [](run.inputs = 0 => game.cannon.angle = AimAngle(game))
    /\ [][Frame => game'.cannon.angle = AimAngle(game')]_vars
    /\ [][~Frame => game'.cannon.angle = game.cannon.angle]_vars

\* a frame after the pointer moved: the angle has followed the pointer
C10_Witness ==
    /\ run.inputs > 0
    /\ run.ticks > 0
    /\ game.mouse # [x |-> game.canvas.width \div 2, y |-> game.canvas.height \div 2]
    /\ game.cannon.angle = AimAngle(game)
    /\ game.cannon.angle # -90

\* C13: every frame adds one to the spawn counter and spawns exactly one enemy
\* when, and only when, the counter then exceeds the spawn interval, and the
\* counter restarts at 0; no other event spawns; two spawns in a row are never
\* less than 20 frames apart, at any interval the game has gone through.
C13_SpawnScheduler ==
    /\ [](/\ game.spawned >= 2 => game.spawnGap >= 20
          /\ game.spawned >= 1 => game.ticks - game.lastSpawn = game.enemySpawnTimer)
    /\ [][Frame =>
            IF 2 * (game.enemySpawnTimer + 1) > game.enemySpawnRate
            THEN /\ game'.spawned = game.spawned + 1
                 /\ game'.enemySpawnTimer = 0
                 /\ Len(game'.enemies) + (game'.fallen - game.fallen)
                        + (game'.crashes - game.crashes) = Len(game.enemies) + 1
            ELSE /\ game'.spawned = game.spawned
                 /\ game'.enemySpawnTimer = game.enemySpawnTimer + 1
                 /\ Len(game'.enemies) + (game'.fallen - game.fallen)
                        + (game'.crashes - game.crashes) = Len(game.enemies)]_vars
    /\ [][~Frame => /\ game'.spawned = game.spawned
                    /\ game'.enemySpawnTimer = game.enemySpawnTimer
                    /\ game'.enemies = game.enemies]_vars

\* a spawn in this run at the shortest interval, 21 frames after the one before
C13_Witness ==
    /\ run.ticks > 0
    /\ game.lastSpawn = game.ticks
    /\ game.enemySpawnTimer = 0
    /\ game.enemySpawnRate = 40
    /\ game.spawned > 80
    /\ game.spawnGap = 21

\* the angle difference the next frame finds for the rocket r: the angle to the
\* pointer less the heading
RawTurn(r) == Atan2(game.mouse.y - r.y, game.mouse.x - r.x) - r.angle

\* C14, as claimed: the normalised angle difference d of every rocket is in
\* (-PI, PI] and a whole number of turns from the raw difference.
C14_HalfOpenTurn ==
    \A i \in 1..Len(game.rockets) :
        LET raw == RawTurn(game.rockets[i])
            d == NormalizeAngle(raw)
        IN  -180 < d /\ d <= 180 /\ (d - raw) % 360 = 0

\* C14, amended: the normalised angle difference d of every rocket is in
\* [-PI, PI] and a whole number of turns from the raw difference; a raw
\* difference of exactly -PI stays -PI; and the frame turns the heading by 5% of d.
C14_ClosedTurn ==
    /\ [](\A i \in 1..Len(game.rockets) :
            LET raw == RawTurn(game.rockets[i])
                d == NormalizeAngle(raw)
            IN  /\ -180 <= d /\ d <= 180
                /\ (d - raw) % 360 = 0
                /\ raw = -180 => d = -180)
    /\ [][Frame =>
            \A i \in 1..Len(game'.rockets) : \E k \in 1..Len(game.rockets) :
                /\ game.rockets[k].born = game'.rockets[i].born
                /\ game'.rockets[i].angle
                     = game.rockets[k].angle
                        + RoundDiv(NormalizeAngle(RawTurn(game.rockets[k])) * 5, 100)]_vars

\* a rocket fired straight down at a pointer it starts beyond: the raw difference
\* was -PI and its first frame has turned it by 5% of -PI, from 90 to 81 degrees
C14_Witness ==
    /\ game.mouse.x = game.cannon.x /\ game.mouse.y > game.cannon.y
    /\ \E i \in 1..Len(game.rockets) :
            /\ game.rockets[i].thrustParticles = 1
            /\ game.rockets[i].angle = 81

\* C15: the stores stay bounded: a bullet is out of the store by its 200th frame
\* and a rocket by its 334th (a stored bullet has been through at most 199
\* frames, a stored rocket through at most 333), and there are never more than
\* 25 bullets nor more than 12 rockets.
C15_StoresBounded ==
    /\ Len(game.bullets) <= 25
    /\ Len(game.rockets) <= 12
    /\ \A i \in 1..Len(game.bullets) : game.ticks - game.bullets[i].born <= 199
    /\ \A i \in 1..Len(game.rockets) : game.ticks - game.rockets[i].born <= 333

\* 25 bullets and 12 rockets in the stores, the oldest rocket in its last frame
C15_Witness ==
    /\ Len(game.bullets) = 25
    /\ Len(game.rockets) = 12
    /\ game.ticks - game.rockets[1].born = 333
    /\ run.ticks > 0

\* a step of setup failed: no context, a shader that does not compile, a program
\* that does not link
SetupFailed ==
    \/ ~water.env.context
    \/ ~water.env.vertex
    \/ ~water.env.fragment
    \/ ~water.env.link

\* C11: when the context is missing, a shader does not compile or the program
\* does not link, showFallback has run (the gradient background is set, the
\* warning is logged) and no geometry and no uniform location is ever set up;
\* when nothing fails there is no fallback and both are set up.
C11_FailureFallsBack ==
    /\ SetupFailed =>
        /\ water.fallbacks = 1
        /\ water.warnings = 1
        /\ water.errors >= 1
        /\ water.canvas.background = "gradient"
        /\ ~water.geometry
        /\ ~water.inUse
        /\ water.uniforms = {}
    /\ ~SetupFailed =>
        /\ water.fallbacks = 0
        /\ water.warnings = 0
        /\ water.canvas.background = "none"
        /\ water.geometry
        /\ water.uniforms = UniformNames

\* both shaders compiled, the program did not link, the fallback is shown and
\* events have since been dispatched
C11_Witness ==
    /\ water.env.context /\ water.env.vertex /\ water.env.fragment
    /\ ~water.env.link
    /\ water.program = "unlinked"
    /\ water.fallbacks = 1
    /\ water.errors = 1
    /\ run.inputs > 0

\* the simulation was set up without a failure
WaterReady == water.gl /\ water.program = "linked" /\ water.fallbacks = 0

\* C12: on a simulation set up without a failure, after a mousemove, touchmove or
\* touchstart on the canvas the pointer position is that of the event (scaled,
\* y flipped) and targetInfluence is 1.0, and the frames after it feed that
\* position and a mouseInfluence above 0 to the shader.
C12_PointerDrivesWater ==
    (WaterReady /\ water.event.type \in MoveEvents) =>
        /\ water.mouse = [x |-> water.event.x * Dpr(water),
                          y |-> (water.event.inner[2] - water.event.y) * Dpr(water)]
        /\ water.targetInfluence = WaterOne
        /\ water.framesSince > 0 =>
            /\ water.fed.mouse = water.mouse
            /\ water.fed.mouseInfluence > 0

\* C16: once the fallback has been shown, animate has made no uniform call and
\* no draw call and no animation frame is requested.
C16_FallbackStopsLoop ==
    water.fallbacks > 0 =>
        /\ water.uniformCalls = 0
        /\ water.drawCalls = 0
        /\ ~water.pending

===========================================================================
